---- MODULE Spec2Model ----
(***************************************************************************)
(* Per-test log lifecycle of the Playwright test platform:                 *)
(*   src/utils/log_helpers.py  directory helpers, sanitize_nodeid,          *)
(*                             get_last_element, build_log_filename         *)
(*   src/conftest.py           pytest_configure / make_dir_for_logs and the *)
(*                             pytest_runtest_setup / _teardown /           *)
(*                             _logreport hooks                             *)
(* Strings are sequences of one-character strings, so that splitting,       *)
(* replacing, slicing and joining are computed as the code computes them.   *)
(***************************************************************************)
EXTENDS Integers, Sequences, FiniteSets, TLC

VARIABLES
    \* ---- pure-function harness (sanitize / last element / filename) ----
    fn_pc,        \* which step of the harness ran last
    node_id,      \* the identity handed to sanitize_nodeid
    sanitized,    \* sanitize_nodeid(node_id)
    resanitized,  \* sanitize_nodeid(sanitized)
    last_element, \* get_last_element(sanitized)
    test_name,    \* the name handed to build_log_filename
    worker_id,    \* os.environ["PYTEST_XDIST_WORKER"] ("" when absent)
    filename,     \* build_log_filename(test_name) under worker_id
    node_id2,     \* a second identity, for the two-test comparison
    path1,        \* log path pytest_runtest_setup computes for node_id
    path2,        \* log path pytest_runtest_setup computes for node_id2
    \* ---- the shared filesystem ----
    dirs,         \* the directories of the artifact tree that exist
    entries,      \* directory entries of log files: [dir, name, ino]
    content,      \* the records written to each file (by inode)
    \* ---- one pytest process each ----
    procs,        \* the processes of the session
    pc,           \* where each process is in the runner's protocol
    current,      \* the test each process is running
    phase,        \* the phase whose hook ran last: setup, call, teardown
    phase_failed, \* whether that phase failed (report.failed)
    handlers,     \* logging.getLogger().handlers of each process
    fds,          \* inodes each process holds an open stream on
    pending,      \* tests not yet started
    raised        \* the exception that left a hook of the process, if any

fn_vars == <<fn_pc, node_id, sanitized, resanitized, last_element,
             test_name, worker_id, filename, node_id2, path1, path2>>
fs_vars == <<dirs, entries, content>>
proc_vars == <<procs, pc, current, phase, phase_failed, handlers, fds,
               pending, raised>>
vars == <<fn_vars, fs_vars, proc_vars>>

None == <<"<none>">>

(***************************************************************************)
(* Bounds of the model.                                                    *)
(***************************************************************************)
MaxIdLen == 4      \* identities of the sanitize harness: every string up to this length
MaxSegLen == 2     \* segments around a "()" segment: every string up to this length
MaxPairLen == 3    \* identities of the two-test comparison
Slack == 3         \* lengths explored on either side of the 255 limit
MaxShort == 2      \* short lengths explored (0..MaxShort)
LongLen == 300     \* the "x"*300 name of the reference case
MaxBody == 1       \* records a test body emits (0..MaxBody)
NumProcs == 2      \* processes of a parallel session
NumWorkers == 2    \* workers calling ensure_log_dirs_exist together

(***************************************************************************)
(* Program constants.                                                      *)
(***************************************************************************)
max_filename_length == 255
DotLog == <<".", "l", "o", "g">>
LOG_DIR_NAME == <<"t", "e", "s", "t", "-", "l", "o", "g", "s">>

(***************************************************************************)
(* String helpers: Python's str.split("::"), str.replace, re.sub, join,    *)
(* slicing.                                                                *)
(***************************************************************************)
Min(a, b) == IF a < b THEN a ELSE b
Max(a, b) == IF a > b THEN a ELSE b

\* index of the first "::" in s, 0 when there is none
FirstSep(s) ==
    IF \E i \in 1..(Len(s) - 1) : s[i] = ":" /\ s[i + 1] = ":"
    THEN CHOOSE i \in 1..(Len(s) - 1) :
            /\ s[i] = ":" /\ s[i + 1] = ":"
            /\ \A k \in 1..(i - 1) : ~(s[k] = ":" /\ s[k + 1] = ":")
    ELSE 0

\* node_id.split("::"): left to right, non-overlapping, empty tokens kept
RECURSIVE Split(_)
Split(s) ==
    LET i == FirstSep(s)
    IN  IF i = 0 THEN <<s>>
        ELSE <<SubSeq(s, 1, i - 1)>> \o Split(SubSeq(s, i + 2, Len(s)))

\* tokens[-1].replace("/", "-")
ReplaceSlash(s) == [i \in 1..Len(s) |-> IF s[i] = "/" THEN "-" ELSE s[i]]

\* re.sub(r"-+", "-", s): every run of hyphens becomes one hyphen
RECURSIVE CollapseHyphens(_)
CollapseHyphens(s) ==
    IF Len(s) <= 1 THEN s
    ELSE LET half == Len(s) \div 2
             left == CollapseHyphens(SubSeq(s, 1, half))
             right == CollapseHyphens(SubSeq(s, half + 1, Len(s)))
         IN  IF left[Len(left)] = "-" /\ right[1] = "-"
             THEN left \o Tail(right)
             ELSE left \o right

\* "/".join(tokens)
RECURSIVE Join(_)
Join(tokens) ==
    IF Len(tokens) = 0 THEN <<>>
    ELSE IF Len(tokens) = 1 THEN tokens[1]
    ELSE tokens[1] \o <<"/">> \o Join(Tail(tokens))

EmptyParam == <<"(", ")">>

\* [x for x in tokens if x != "()"]
DropEmptyParam(tokens) == SelectSeq(tokens, LAMBDA x : x # EmptyParam)

FirstIndex(s, c) ==
    IF \E i \in 1..Len(s) : s[i] = c
    THEN CHOOSE i \in 1..Len(s) : s[i] = c /\ \A k \in 1..(i - 1) : s[k] # c
    ELSE 0

LastIndex(s, c) ==
    IF \E i \in 1..Len(s) : s[i] = c
    THEN CHOOSE i \in 1..Len(s) : s[i] = c /\ \A k \in (i + 1)..Len(s) : s[k] # c
    ELSE 0

\* re.sub(r"\[(.+)\]", r"-\1", s): the match starts at the first "[" and,
\* being greedy, ends at the last "]", with at least one character between;
\* nothing after the last "]" can match again.
BracketSub(s) ==
    LET i == FirstIndex(s, "[")
        j == LastIndex(s, "]")
    IN  IF i > 0 /\ j >= i + 2
        THEN SubSeq(s, 1, i - 1) \o <<"-">> \o SubSeq(s, i + 1, j - 1)
                 \o SubSeq(s, j + 1, Len(s))
        ELSE s

\* s[:n] with Python's slice semantics: a negative n counts from the end
Slice(s, n) ==
    IF n >= 0 THEN SubSeq(s, 1, Min(n, Len(s)))
    ELSE SubSeq(s, 1, Max(0, Len(s) + n))

(***************************************************************************)
(* log_helpers.py                                                          *)
(***************************************************************************)
\* Variants of the functions below, each with one plausible slip; a property
\* that depends on the code fails when the function is replaced by its variant.
SanitizeKeepParam(id) ==
    LET tokens == Split(id)
        n == Len(tokens)
        fixed == [tokens EXCEPT ![n] = CollapseHyphens(ReplaceSlash(tokens[n]))]
    IN  BracketSub(Join(fixed))

SanitizeJoinHyphen(id) ==
    LET tokens == Split(id)
        n == Len(tokens)
        fixed == [tokens EXCEPT ![n] = CollapseHyphens(ReplaceSlash(tokens[n]))]
    IN  ReplaceSlash(BracketSub(Join(DropEmptyParam(fixed))))

sanitize_nodeid(id) ==
    LET tokens == Split(id)
        n == Len(tokens)
        fixed == [tokens EXCEPT ![n] = CollapseHyphens(ReplaceSlash(tokens[n]))]
    IN  BracketSub(Join(DropEmptyParam(fixed)))

GetWholeString(s) == s

get_last_element(s) == SubSeq(s, LastIndex(s, "/") + 1, Len(s))

Prefix(worker) == IF worker # <<>> THEN worker \o <<"_">> ELSE <<>>

BuildNoTruncation(name, worker) == Prefix(worker) \o name \o DotLog

BuildAlwaysPrefixed(name, worker) ==
    LET prefix == worker \o <<"_">>
        max_name_length == max_filename_length - Len(prefix) - Len(DotLog)
    IN  prefix \o Slice(name, max_name_length) \o DotLog

build_log_filename(name, worker) ==
    LET prefix == Prefix(worker)
        max_name_length == max_filename_length - Len(prefix) - Len(DotLog)
        truncated_test_name == Slice(name, max_name_length)
    IN  prefix \o truncated_test_name \o DotLog

(***************************************************************************)
(* conftest.py: the path pytest_runtest_setup opens and the path           *)
(* pytest_runtest_logreport looks for.                                     *)
(***************************************************************************)
SetupNameNoLastElement(id) ==
    Slice(sanitize_nodeid(id), max_filename_length - Len(LOG_DIR_NAME) - 5) \o DotLog

\* conftest.py:221-226, the file name under LOG_DIR
setup_log_name(id) ==
    LET name == get_last_element(sanitize_nodeid(id))
        truncated_test_name ==
            Slice(name, max_filename_length - Len(LOG_DIR_NAME) - 5)
    IN  truncated_test_name \o DotLog

\* conftest.py:280-282, the file name under LOG_DIR and under FAILED_LOG_DIR
report_log_name(id) == get_last_element(sanitize_nodeid(id)) \o DotLog

(***************************************************************************)
(* Inputs of the pure-function harness.                                    *)
(***************************************************************************)
Alphabet == {":", "/", "-", "[", "]", "(", ")", "a"}
PairAlphabet == {":", "/", "a", "b"}

StringsUpTo(alphabet, n) == UNION {[1..k -> alphabet] : k \in 0..n}

RefId == <<"t", "e", "s", "t", "s", "/", "m", "o", "d", ".", "p", "y", ":", ":", "T", "e", "s", "t", "X", ":", ":", "t", "e", "s", "t", "_", "y", "[", "c", "a", "s", "e", "-", "1", "]">>
RefWorker == <<"g", "w", "3">>

\* identities with a "()" segment: before, between and after other segments
SegAlphabet == {":", "/", "-", "[", "]", "a"}
Segments == StringsUpTo(SegAlphabet, MaxSegLen)
Sep == <<":", ":">>
ParamIds ==
    {s \o Sep \o EmptyParam \o Sep \o t : s \in Segments, t \in Segments}
        \cup {s \o Sep \o EmptyParam : s \in Segments}
        \cup {EmptyParam \o Sep \o s : s \in Segments}

NodeIds == StringsUpTo(Alphabet, MaxIdLen) \cup {RefId} \cup ParamIds
PairIds == StringsUpTo(PairAlphabet, MaxPairLen)

Letters == <<"a", "b", "c", "d", "e">>
NameOfLen(n) == [i \in 1..n |-> Letters[(i % 5) + 1]]
TagOfLen(n) == [i \in 1..n |-> "w"]

NearLimit ==
    (max_filename_length - 9 - Slack)..(max_filename_length + Slack)
TestNames ==
    {NameOfLen(n) : n \in (0..MaxShort) \cup NearLimit}
        \cup {[i \in 1..LongLen |-> "x"]}
WorkerIds ==
    {TagOfLen(n) : n \in (0..MaxShort) \cup NearLimit} \cup {RefWorker}

\* identities "m::<name>" with short names and names around the length
\* pytest_runtest_setup truncates at
NearSetupLimit ==
    (max_filename_length - Len(LOG_DIR_NAME) - 5 - Slack)
        ..(max_filename_length - Len(LOG_DIR_NAME) - 5 + Slack)
LocateIds ==
    {<<"m">> \o Sep \o NameOfLen(n) : n \in (0..MaxShort) \cup NearSetupLimit}

(***************************************************************************)
(* The parts of the state a specification does not use stay as they start. *)
(***************************************************************************)
FnIdle ==
    /\ fn_pc = "off"
    /\ node_id = None /\ sanitized = None /\ resanitized = None
    /\ last_element = None /\ test_name = None /\ worker_id = None
    /\ filename = None /\ node_id2 = None /\ path1 = None /\ path2 = None

FsIdle == dirs = {} /\ entries = {} /\ content = <<>>

ProcIdle ==
    /\ procs = {} /\ pc = <<>> /\ current = <<>> /\ phase = <<>>
    /\ phase_failed = <<>> /\ handlers = <<>> /\ fds = <<>>
    /\ pending = {} /\ raised = <<>>

(***************************************************************************)
(* Specification SpecSanitize: sanitize_nodeid, applied once and again,    *)
(* and get_last_element, on every identity up to MaxIdLen characters, on   *)
(* the reference identity and on identities with a "()" segment.           *)
(***************************************************************************)
InitSanitize ==
    /\ fn_pc = "input"
    /\ node_id \in NodeIds
    /\ sanitized = None /\ resanitized = None /\ last_element = None
    /\ test_name = None /\ worker_id = None /\ filename = None
    /\ node_id2 = None /\ path1 = None /\ path2 = None
    /\ FsIdle /\ ProcIdle

Sanitize ==
    /\ fn_pc = "input" /\ node_id2 = None
    /\ sanitized' = sanitize_nodeid(node_id)
    /\ fn_pc' = "sanitized"
    /\ UNCHANGED <<node_id, resanitized, last_element, test_name, worker_id,
                   filename, node_id2, path1, path2, fs_vars, proc_vars>>

SanitizeAgain ==
    /\ fn_pc = "sanitized"
    /\ resanitized' = sanitize_nodeid(sanitized)
    /\ fn_pc' = "resanitized"
    /\ UNCHANGED <<node_id, sanitized, last_element, test_name, worker_id,
                   filename, node_id2, path1, path2, fs_vars, proc_vars>>

LastElement ==
    /\ fn_pc = "resanitized"
    /\ last_element' = get_last_element(sanitized)
    /\ fn_pc' = "last"
    /\ UNCHANGED <<node_id, sanitized, resanitized, test_name, worker_id,
                   filename, node_id2, path1, path2, fs_vars, proc_vars>>

NextSanitize == Sanitize \/ SanitizeAgain \/ LastElement

SpecSanitize == InitSanitize /\ [][NextSanitize]_vars

(***************************************************************************)
(* Specification SpecBuild: build_log_filename on names and worker ids of  *)
(* lengths 0..MaxShort, around max_filename_length, and the reference case.*)
(***************************************************************************)
InitBuild ==
    /\ fn_pc = "input"
    /\ test_name \in TestNames
    /\ worker_id \in WorkerIds
    /\ filename = None
    /\ node_id = None /\ sanitized = None /\ resanitized = None
    /\ last_element = None /\ node_id2 = None /\ path1 = None /\ path2 = None
    /\ FsIdle /\ ProcIdle

Build ==
    /\ fn_pc = "input" /\ test_name # None
    /\ filename' = build_log_filename(test_name, worker_id)
    /\ fn_pc' = "built"
    /\ UNCHANGED <<node_id, sanitized, resanitized, last_element, test_name,
                   worker_id, node_id2, path1, path2, fs_vars, proc_vars>>

NextBuild == Build

SpecBuild == InitBuild /\ [][NextBuild]_vars

(***************************************************************************)
(* Specification SpecPair: the log file names pytest_runtest_setup         *)
(* computes for two identities of one session.                             *)
(***************************************************************************)
InitPair ==
    /\ fn_pc = "input"
    /\ node_id \in PairIds
    /\ node_id2 \in PairIds
    /\ path1 = None /\ path2 = None
    /\ sanitized = None /\ resanitized = None /\ last_element = None
    /\ test_name = None /\ worker_id = None /\ filename = None
    /\ FsIdle /\ ProcIdle

ComputePaths ==
    /\ fn_pc = "input" /\ node_id2 # None
    /\ path1' = setup_log_name(node_id)
    /\ path2' = setup_log_name(node_id2)
    /\ fn_pc' = "paths"
    /\ UNCHANGED <<node_id, node_id2, sanitized, resanitized, last_element,
                   test_name, worker_id, filename, fs_vars, proc_vars>>

NextPair == ComputePaths

SpecPair == InitPair /\ [][NextPair]_vars

(***************************************************************************)
(* Claims about the pure functions.                                        *)
(***************************************************************************)
NotTruncated(id) ==
    Len(get_last_element(sanitize_nodeid(id)))
        <= max_filename_length - Len(LOG_DIR_NAME) - 5

\* C6 (as claimed): two distinct identities, neither long enough to be
\* truncated, get two distinct log file names from pytest_runtest_setup.
C6_DistinctIdsDistinctFiles ==
    (fn_pc = "paths" /\ node_id # node_id2
        /\ NotTruncated(node_id) /\ NotTruncated(node_id2))
    => path1 # path2

\* C7 (as claimed): sanitize_nodeid(sanitize_nodeid(x)) = sanitize_nodeid(x)
\* for every identity x.
C7_SanitizeIdempotent ==
    fn_pc \in {"resanitized", "last"} => resanitized = sanitized

RefSanitizedClaimed == <<"t", "e", "s", "t", "s", "/", "m", "o", "d", ".", "p", "y", "-", "T", "e", "s", "t", "X", "-", "t", "e", "s", "t", "_", "y", "-", "c", "a", "s", "e", "-", "1">>
RefLastClaimed == <<"m", "o", "d", ".", "p", "y", "-", "T", "e", "s", "t", "X", "-", "t", "e", "s", "t", "_", "y", "-", "c", "a", "s", "e", "-", "1">>
RefSanitized == <<"t", "e", "s", "t", "s", "/", "m", "o", "d", ".", "p", "y", "/", "T", "e", "s", "t", "X", "/", "t", "e", "s", "t", "_", "y", "-", "c", "a", "s", "e", "-", "1">>
RefLast == <<"t", "e", "s", "t", "_", "y", "-", "c", "a", "s", "e", "-", "1">>

\* C8 (as claimed): the reference identity sanitizes to
\* "tests/mod.py-TestX-test_y-case-1" and its last element is
\* "mod.py-TestX-test_y-case-1".
C8_ReferenceAsClaimed ==
    (fn_pc = "last" /\ node_id = RefId)
    => (sanitized = RefSanitizedClaimed /\ last_element = RefLastClaimed)

\* C8 (amended): the reference identity sanitizes to
\* "tests/mod.py/TestX/test_y-case-1" (the "::" hierarchy joined by "/", the
\* bracketed suffix flattened to "-case-1") and its last element is
\* "test_y-case-1"; for every identity the last element is what follows the
\* final "/" of the sanitized name, the whole name when it has no "/".
C8_Reference ==
    fn_pc = "last" =>
        /\ node_id = RefId => (sanitized = RefSanitized /\ last_element = RefLast)
        /\ LET k == Len(sanitized) - Len(last_element)
           IN  /\ k >= 0
               /\ SubSeq(sanitized, k + 1, Len(sanitized)) = last_element
               /\ \A i \in 1..Len(last_element) : last_element[i] # "/"
               /\ (k = 0 \/ sanitized[k] = "/")

C8_Witness ==
    /\ fn_pc = "last" /\ node_id = RefId
    /\ Len(last_element) < Len(sanitized)

ClaimedPrefix == IF worker_id # <<>> THEN worker_id \o <<"_">> ELSE <<>>
ClaimedBudget == max_filename_length - Len(ClaimedPrefix) - 4

FilenameAsClaimed ==
    LET n == Min(Len(test_name), ClaimedBudget)
    IN  /\ n >= 0
        /\ filename = ClaimedPrefix \o SubSeq(test_name, 1, n) \o DotLog
        /\ Len(filename) <= max_filename_length

\* C9 (as claimed): for every test_name and every worker_tag the result is
\* prefix + t + ".log", t the leading min(len(test_name), 255 - len(prefix) - 4)
\* characters of test_name, and the result is at most 255 characters long.
C9_FilenameAsClaimed == fn_pc = "built" => FilenameAsClaimed

\* C9 (amended): the same, for every test_name and every worker_tag whose
\* prefix and ".log" suffix fit the limit (len(prefix) + 4 <= 255).
C9_Filename ==
    (fn_pc = "built" /\ ClaimedBudget >= 0) => FilenameAsClaimed

C9_Witness ==
    /\ fn_pc = "built" /\ worker_id # <<>>
    /\ ClaimedBudget >= 0 /\ Len(test_name) > ClaimedBudget
    /\ Len(filename) = max_filename_length

\* C10 (as claimed): when prefix plus ".log" reach or exceed the limit, the
\* truncation length is zero and the filename is exactly prefix + ".log".
C10_BudgetFloorsAtZero ==
    (fn_pc = "built" /\ Len(ClaimedPrefix) + 4 >= max_filename_length)
    => filename = ClaimedPrefix \o DotLog

(***************************************************************************)
(* The artifact directory tree and the log files in it.                    *)
(***************************************************************************)
LOG_DIR == "test-logs"
FAILED_LOG_DIR == "test-logs/failed_tests"
SCREENSHOTS_DIR == "test-logs/screenshots"
TRACES_DIR == "test-logs/traces"
SubDirs == {FAILED_LOG_DIR, SCREENSHOTS_DIR, TRACES_DIR}
AllDirs == {LOG_DIR} \cup SubDirs

Entry(dir, name, ino) == [dir |-> dir, name |-> name, ino |-> ino]
EntriesAt(es, dir, name) == {e \in es : e.dir = dir /\ e.name = name}
Exists(es, dir, name) == EntriesAt(es, dir, name) # {}
InoAt(es, dir, name) == (CHOOSE e \in EntriesAt(es, dir, name) : TRUE).ino

\* os.makedirs(d, exist_ok=True): d and its missing parents
os_makedirs(ds, d) == ds \cup {LOG_DIR, d}

\* shutil.rmtree(LOG_DIR): the tree and every entry in it
RmtreeKeepsFiles(es) == es
rmtree_entries(es) == {}

\* os.rename(src, dst) of a log file, POSIX: an existing dst is replaced
os_rename(es, name) ==
    (es \ (EntriesAt(es, LOG_DIR, name) \cup EntriesAt(es, FAILED_LOG_DIR, name)))
        \cup {Entry(FAILED_LOG_DIR, name, InoAt(es, LOG_DIR, name))}

(***************************************************************************)
(* The root logger of a process: its handlers, and what a record does.     *)
(***************************************************************************)
FileHandler(ino) == [kind |-> "FileHandler", ino |-> ino]
ForeignHandler == [kind |-> "StreamHandler", ino |-> None]
IsFileHandler(h) == h.kind = "FileHandler"
FileInos(hs) == {hs[k].ino : k \in {i \in 1..Len(hs) : IsFileHandler(hs[i])}}

Record(msg, id) == [msg |-> msg, id |-> id]
StartRecord(id) == Record("Starting test", id)
FinishRecord(id) == Record("Finished test", id)
BodyRecord(id) == Record("body", id)

\* logger.info(...) on the root logger: every file handler appends the record
Emit(cont, hs, rec) ==
    [i \in DOMAIN cont |->
        IF i \in FileInos(hs) THEN Append(cont[i], rec) ELSE cont[i]]

RECURSIVE EmitBody(_, _, _, _)
EmitBody(cont, hs, id, n) ==
    IF n = 0 THEN cont ELSE EmitBody(Emit(cont, hs, BodyRecord(id)), hs, id, n - 1)

(***************************************************************************)
(* The tests of the session (node ids) and a file left by an earlier one.  *)
(***************************************************************************)
IdAT == <<"a", ":", ":", "t">>
IdBT == <<"b", ":", ":", "t">>
IdAU == <<"a", ":", ":", "u", "[", "x", "]">>
TestIds == {IdAT, IdBT, IdAU}
OldIno == <<"o", "l", "d">>
OldRecord == Record("body", OldIno)
Inos == TestIds \cup {OldIno}

(***************************************************************************)
(* Specifications Spec (one process) and SpecWorkers (NumProcs processes): *)
(* every process runs pytest_configure and then, test after test, the      *)
(* runner's protocol: pytest_runtest_setup, the setup report, the test     *)
(* body, the call report, pytest_runtest_teardown, the teardown report.    *)
(***************************************************************************)
InitSession(P) ==
    /\ FnIdle
    /\ procs = P
    /\ pc = [p \in P |-> "configure"]
    /\ current = [p \in P |-> None]
    /\ phase = [p \in P |-> "none"]
    /\ phase_failed = [p \in P |-> FALSE]
    /\ handlers \in {[p \in P |-> <<>>], [p \in P |-> <<ForeignHandler>>]}
    /\ fds = [p \in P |-> {}]
    /\ pending = TestIds
    /\ raised = [p \in P |-> "none"]
    /\ content = [i \in Inos |-> IF i = OldIno THEN <<OldRecord>> ELSE <<>>]
    /\ \/ dirs = {} /\ entries = {}
       \/ /\ dirs = {LOG_DIR, FAILED_LOG_DIR, SCREENSHOTS_DIR}
          /\ entries \in {{}, {Entry(LOG_DIR, setup_log_name(IdAT), OldIno)}}

\* conftest.py:135  if os.path.exists(LOG_DIR)
ConfigureExists(p) ==
    /\ pc[p] = "configure"
    /\ pc' = [pc EXCEPT ![p] = IF LOG_DIR \in dirs THEN "rmtree" ELSE "makedirs_log"]
    /\ UNCHANGED <<fn_vars, fs_vars, procs, current, phase, phase_failed,
                   handlers, fds, pending, raised>>

\* conftest.py:137  shutil.rmtree(LOG_DIR)
ConfigureRmtree(p) ==
    /\ pc[p] = "rmtree"
    /\ IF LOG_DIR \in dirs
       THEN /\ dirs' = {}
            /\ entries' = rmtree_entries(entries)
            /\ pc' = [pc EXCEPT ![p] = "makedirs_log"]
            /\ raised' = raised
       ELSE /\ UNCHANGED <<dirs, entries>>
            /\ pc' = [pc EXCEPT ![p] = "crashed"]
            /\ raised' = [raised EXCEPT ![p] = "FileNotFoundError"]
    /\ UNCHANGED <<fn_vars, content, procs, current, phase, phase_failed,
                   handlers, fds, pending>>

\* conftest.py:140  os.makedirs(LOG_DIR, exist_ok=True)
MakedirsLog(p) ==
    /\ pc[p] = "makedirs_log"
    /\ dirs' = os_makedirs(dirs, LOG_DIR)
    /\ pc' = [pc EXCEPT ![p] = "makedirs_failed"]
    /\ UNCHANGED <<fn_vars, entries, content, procs, current, phase,
                   phase_failed, handlers, fds, pending, raised>>

\* conftest.py:141  os.makedirs(FAILED_LOG_DIR, exist_ok=True)
MakedirsFailed(p) ==
    /\ pc[p] = "makedirs_failed"
    /\ dirs' = os_makedirs(dirs, FAILED_LOG_DIR)
    /\ pc' = [pc EXCEPT ![p] = "makedirs_screenshots"]
    /\ UNCHANGED <<fn_vars, entries, content, procs, current, phase,
                   phase_failed, handlers, fds, pending, raised>>

\* conftest.py:142  os.makedirs(SCREENSHOTS_DIR, exist_ok=True)
MakedirsScreenshots(p) ==
    /\ pc[p] = "makedirs_screenshots"
    /\ dirs' = os_makedirs(dirs, SCREENSHOTS_DIR)
    /\ pc' = [pc EXCEPT ![p] = "idle"]
    /\ UNCHANGED <<fn_vars, entries, content, procs, current, phase,
                   phase_failed, handlers, fds, pending, raised>>

\* conftest.py:230-231: the handlers left when FileHandler(log_file) raises.
\* The list was emptied before the open and addHandler is not reached.
RegisteredBeforeOpen(hs, h) == <<h>>
after_failed_open(hs, h) == <<>>

\* conftest.py:206-237.  The hook runs first (tryfirst); the runner's own
\* setup of the fixtures follows it and may fail (fixture_fails).  The open
\* fails when LOG_DIR is missing, or on an I/O error (open_fails).
pytest_runtest_setup(p, id, fixture_fails, open_fails) ==
    LET log_name == setup_log_name(id)
        ino == IF Exists(entries, LOG_DIR, log_name)
               THEN InoAt(entries, LOG_DIR, log_name) ELSE id
        opened == <<FileHandler(ino)>>
    IN  /\ pc[p] = "idle"
        /\ id \in pending
        /\ pending' = pending \ {id}
        /\ current' = [current EXCEPT ![p] = id]
        /\ phase' = [phase EXCEPT ![p] = "setup"]
        /\ pc' = [pc EXCEPT ![p] = "report_setup"]
        /\ IF LOG_DIR \in dirs /\ ~open_fails
           THEN \* logger.handlers = []; FileHandler(log_file) opens in
                \* append mode; addHandler; logger.info("Starting test - ...")
                /\ entries' = entries \cup {Entry(LOG_DIR, log_name, ino)}
                /\ handlers' = [handlers EXCEPT ![p] = opened]
                /\ fds' = [fds EXCEPT ![p] = @ \cup {ino}]
                /\ content' = Emit(content, opened, StartRecord(id))
                /\ phase_failed' = [phase_failed EXCEPT ![p] = fixture_fails]
                /\ raised' = [raised EXCEPT ![p] = "none"]
           ELSE \* the handlers are already gone when open() raises
                /\ ~fixture_fails
                /\ handlers' = [handlers EXCEPT
                                   ![p] = after_failed_open(@, FileHandler(ino))]
                /\ phase_failed' = [phase_failed EXCEPT ![p] = TRUE]
                /\ raised' = [raised EXCEPT
                                 ![p] = IF LOG_DIR \in dirs THEN "OSError"
                                        ELSE "FileNotFoundError"]
                /\ UNCHANGED <<entries, fds, content>>
        /\ UNCHANGED <<fn_vars, dirs, procs>>

\* the test body: it logs through the root logger and passes or fails
TestBody(p, n, failed) ==
    /\ pc[p] = "call"
    /\ content' = EmitBody(content, handlers[p], current[p], n)
    /\ phase' = [phase EXCEPT ![p] = "call"]
    /\ phase_failed' = [phase_failed EXCEPT ![p] = failed]
    /\ pc' = [pc EXCEPT ![p] = "report_call"]
    /\ UNCHANGED <<fn_vars, dirs, entries, procs, current, handlers, fds,
                   pending, raised>>

\* conftest.py:259-262: the streams the loop closes, and the handlers it
\* leaves registered
TeardownClosesNothing(hs) == {}
TeardownRemovesAll(hs) == <<>>
closed_by_teardown(hs) == FileInos(hs)
left_by_teardown(hs) == SelectSeq(hs, LAMBDA h : ~IsFileHandler(h))

\* conftest.py:240-262.  Fixture teardown follows the hook and may fail.
\* handler.close() may raise on an I/O error (close_fails): the stream is
\* released by close()'s finally, removeHandler is not reached, and the
\* exception leaves the hook.
pytest_runtest_teardown(p, fixture_fails, close_fails) ==
    /\ pc[p] = "teardown"
    /\ content' = Emit(content, handlers[p], FinishRecord(current[p]))
    /\ fds' = [fds EXCEPT ![p] = @ \ closed_by_teardown(handlers[p])]
    /\ phase' = [phase EXCEPT ![p] = "teardown"]
    /\ pc' = [pc EXCEPT ![p] = "report_teardown"]
    /\ IF close_fails
       THEN /\ FileInos(handlers[p]) # {}
            /\ ~fixture_fails
            /\ handlers' = handlers
            /\ phase_failed' = [phase_failed EXCEPT ![p] = TRUE]
            /\ raised' = [raised EXCEPT ![p] = "OSError"]
       ELSE /\ handlers' = [handlers EXCEPT ![p] = left_by_teardown(@)]
            /\ phase_failed' = [phase_failed EXCEPT ![p] = fixture_fails]
            /\ raised' = [raised EXCEPT ![p] = "none"]
    /\ UNCHANGED <<fn_vars, dirs, entries, procs, current, pending>>

\* another party (the runner's log capture, the test itself) registers a
\* sink of its own on the root logger while the test runs
RegisterForeign(p) ==
    /\ pc[p] = "call"
    /\ \A k \in 1..Len(handlers[p]) : IsFileHandler(handlers[p][k])
    /\ handlers' = [handlers EXCEPT ![p] = Append(@, ForeignHandler)]
    /\ UNCHANGED <<fn_vars, fs_vars, procs, pc, current, phase, phase_failed,
                   fds, pending, raised>>

\* conftest.py:279  if report.when == "call" and report.failed
RelocateOnAnyFailure(when, failed) == failed
ShouldRelocate(when, failed) == when = "call" /\ failed

\* where the runner goes after the report of a phase
AfterReport(when, failed) ==
    IF when = "setup" THEN (IF failed THEN "teardown" ELSE "call")
    ELSE IF when = "call" THEN "teardown"
    ELSE "idle"

\* conftest.py:265-284, called by the runner with the report of each phase.
\* os.rename raises when FAILED_LOG_DIR is missing, or on an I/O error
\* (rename_fails).
pytest_runtest_logreport(p, rename_fails) ==
    LET when == phase[p]
        failed == phase_failed[p]
        log_name == report_log_name(current[p])
    IN  /\ pc[p] \in {"report_setup", "report_call", "report_teardown"}
        /\ rename_fails =>
               (ShouldRelocate(when, failed) /\ Exists(entries, LOG_DIR, log_name))
        /\ IF ShouldRelocate(when, failed) /\ Exists(entries, LOG_DIR, log_name)
           THEN IF FAILED_LOG_DIR \in dirs /\ ~rename_fails
                THEN /\ entries' = os_rename(entries, log_name)
                     /\ pc' = [pc EXCEPT ![p] = AfterReport(when, failed)]
                     /\ raised' = [raised EXCEPT ![p] = "none"]
                ELSE /\ entries' = entries
                     /\ pc' = [pc EXCEPT ![p] = "crashed"]
                     /\ raised' = [raised EXCEPT
                                      ![p] = IF FAILED_LOG_DIR \in dirs THEN "OSError"
                                             ELSE "FileNotFoundError"]
           ELSE /\ entries' = entries
                /\ pc' = [pc EXCEPT ![p] = AfterReport(when, failed)]
                /\ raised' = [raised EXCEPT ![p] = "none"]
        /\ UNCHANGED <<fn_vars, dirs, content, procs, current, phase,
                       phase_failed, handlers, fds, pending>>

Next ==
    \/ \E p \in procs : ConfigureExists(p)
    \/ \E p \in procs : ConfigureRmtree(p)
    \/ \E p \in procs : MakedirsLog(p)
    \/ \E p \in procs : MakedirsFailed(p)
    \/ \E p \in procs : MakedirsScreenshots(p)
    \/ \E p \in procs, id \in TestIds, f \in BOOLEAN :
           pytest_runtest_setup(p, id, f, FALSE)
    \/ \E p \in procs, n \in 0..MaxBody, f \in BOOLEAN : TestBody(p, n, f)
    \/ \E p \in procs, f \in BOOLEAN : pytest_runtest_teardown(p, f, FALSE)
    \/ \E p \in procs : pytest_runtest_logreport(p, FALSE)

Init == InitSession({1})
Spec == Init /\ [][Next]_vars

InitWorkers == InitSession(1..NumProcs)
SpecWorkers == InitWorkers /\ [][Next]_vars

\* Specification SpecSinks: one process, and other parties register sinks
\* of their own on the root logger while a test runs.
NextSinks ==
    \/ Next
    \/ \E p \in procs : RegisterForeign(p)

SpecSinks == Init /\ [][NextSinks]_vars

\* Specification SpecFaults: SpecSinks, and the file operations of the
\* hooks may fail with an I/O error: the open of pytest_runtest_setup, the
\* close of pytest_runtest_teardown, the rename of pytest_runtest_logreport.
NextFaults ==
    \/ NextSinks
    \/ \E p \in procs, id \in TestIds : pytest_runtest_setup(p, id, FALSE, TRUE)
    \/ \E p \in procs : pytest_runtest_teardown(p, FALSE, TRUE)
    \/ \E p \in procs : pytest_runtest_logreport(p, TRUE)

SpecFaults == Init /\ [][NextFaults]_vars

(***************************************************************************)
(* Claims about the per-test log lifecycle.                                *)
(***************************************************************************)
IsBodyOf(id, recs) == \A i \in 1..Len(recs) : recs[i] = BodyRecord(id)

RoundTripLog(id, recs) ==
    /\ Len(recs) >= 2
    /\ recs[1] = StartRecord(id)
    /\ recs[Len(recs)] = FinishRecord(id)
    /\ IsBodyOf(id, SubSeq(recs, 2, Len(recs) - 1))

\* C1 (as claimed): once pytest_runtest_teardown has run for a test, its log
\* file exists at the path pytest_runtest_setup computed, no stream on it is
\* open, it holds "Starting test - id" first and "Finished test - id" last
\* with only the body's records between, and the root logger has no file
\* handler left.
C1_AttachDetachRoundTrip ==
    \A p \in procs :
        pc[p] = "report_teardown" =>
            LET log_name == setup_log_name(current[p])
            IN  /\ Exists(entries, LOG_DIR, log_name)
                /\ RoundTripLog(current[p], content[InoAt(entries, LOG_DIR, log_name)])
                /\ fds[p] = {}
                /\ FileInos(handlers[p]) = {}

\* C2: a pytest_runtest_logreport step that finds the test's log file at
\* LOG_DIR/filename moves it to FAILED_LOG_DIR/filename (nothing left at the
\* original path) when the report is of the call phase and failed; for any
\* other report every directory entry and every file stays as it was.
C2_FailureRelocation ==
    [][\A p \in procs :
        LET log_name == report_log_name(current[p])
        IN  (/\ pc[p] \in {"report_setup", "report_call", "report_teardown"}
             /\ pc'[p] # pc[p]
             /\ Exists(entries, LOG_DIR, log_name))
            => IF phase[p] = "call" /\ phase_failed[p]
               THEN /\ ~Exists(entries', LOG_DIR, log_name)
                    /\ Exists(entries', FAILED_LOG_DIR, log_name)
                    /\ InoAt(entries', FAILED_LOG_DIR, log_name)
                           = InoAt(entries, LOG_DIR, log_name)
                    /\ content' = content
               ELSE entries' = entries /\ content' = content]_vars

C2_Witness ==
    \E p \in procs :
        /\ pc[p] = "teardown" /\ phase[p] = "call" /\ phase_failed[p]
        /\ Exists(entries, FAILED_LOG_DIR, report_log_name(current[p]))
        /\ ~Exists(entries, LOG_DIR, report_log_name(current[p]))
        /\ \E e \in entries : e.dir = LOG_DIR

\* C3 (as claimed): a log file is renamed into FAILED_LOG_DIR only after
\* pytest_runtest_teardown has closed its handler; no file in FAILED_LOG_DIR
\* is the file of a handler still open and registered on a root logger.
C3_RenameOnlyAfterDetach ==
    \A p \in procs :
        \A e \in entries :
            e.dir = FAILED_LOG_DIR => e.ino \notin FileInos(handlers[p])

\* C4 (as claimed): no process deletes the artifact tree while another
\* process has a log file attached in it.
C4_NoDeleteWhileAttached ==
    [][\A p \in procs :
        (pc[p] = "rmtree" /\ pc'[p] = "makedirs_log")
            => \A q \in procs \ {p} : FileInos(handlers[q]) = {}]_vars

(***************************************************************************)
(* Specification SpecEnsure: NumWorkers workers call ensure_log_dirs_exist *)
(* on one tree, their four mkdir calls interleaved, starting from any      *)
(* subset of the directories (a subdirectory only under an existing root). *)
(***************************************************************************)
Parent(d) == IF d = LOG_DIR THEN "." ELSE LOG_DIR
HasParent(ds, d) == Parent(d) = "." \/ Parent(d) \in ds

\* Path.mkdir(parents=..., exist_ok=...): the directories after the call
\* and the exception it raises, if any
PathMkdirExclusive(ds, d, parents, exist_ok) ==
    IF d \in ds THEN [dirs |-> ds, exc |-> "FileExistsError"]
    ELSE IF ~HasParent(ds, d) /\ ~parents
    THEN [dirs |-> ds, exc |-> "FileNotFoundError"]
    ELSE [dirs |-> ds \cup {d} \cup ({Parent(d)} \ {"."}), exc |-> "none"]

path_mkdir(ds, d, parents, exist_ok) ==
    IF d \in ds
    THEN [dirs |-> ds, exc |-> IF exist_ok THEN "none" ELSE "FileExistsError"]
    ELSE IF ~HasParent(ds, d) /\ ~parents
    THEN [dirs |-> ds, exc |-> "FileNotFoundError"]
    ELSE [dirs |-> ds \cup {d} \cup ({Parent(d)} \ {"."}), exc |-> "none"]

InitEnsure ==
    /\ FnIdle
    /\ procs = 1..NumWorkers
    /\ pc = [w \in procs |-> "ensure_log"]
    /\ raised = [w \in procs |-> "none"]
    /\ current = <<>> /\ phase = <<>> /\ phase_failed = <<>>
    /\ handlers = <<>> /\ fds = <<>> /\ pending = {}
    /\ content = [i \in {OldIno} |-> <<OldRecord>>]
    /\ \/ dirs = {} /\ entries = {}
       \/ /\ dirs \in {{LOG_DIR} \cup ds : ds \in SUBSET SubDirs}
          /\ entries \in {{}, {Entry(LOG_DIR, setup_log_name(IdAT), OldIno)}}

\* variant: the worker resets the tree as the primary does
EnsureStepResetting(w, at, d, parents, then) ==
    LET start == IF at = "ensure_log" THEN {} ELSE dirs
        r == path_mkdir(start, d, parents, TRUE)
    IN  /\ pc[w] = at
        /\ dirs' = r.dirs
        /\ entries' = IF at = "ensure_log" THEN rmtree_entries(entries) ELSE entries
        /\ raised' = [raised EXCEPT ![w] = r.exc]
        /\ pc' = [pc EXCEPT ![w] = IF r.exc = "none" THEN then ELSE "crashed"]
        /\ UNCHANGED <<fn_vars, content, procs, current, phase,
                       phase_failed, handlers, fds, pending>>

\* one mkdir call of ensure_log_dirs_exist by worker w
EnsureStep(w, at, d, parents, then) ==
    LET r == path_mkdir(dirs, d, parents, TRUE)
    IN  /\ pc[w] = at
        /\ dirs' = r.dirs
        /\ raised' = [raised EXCEPT ![w] = r.exc]
        /\ pc' = [pc EXCEPT ![w] = IF r.exc = "none" THEN then ELSE "crashed"]
        /\ UNCHANGED <<fn_vars, entries, content, procs, current, phase,
                       phase_failed, handlers, fds, pending>>

\* log_helpers.py:32  LOG_DIR.mkdir(exist_ok=True)
EnsureLog(w) == EnsureStep(w, "ensure_log", LOG_DIR, FALSE, "ensure_failed")
\* log_helpers.py:33  FAILED_LOG_DIR.mkdir(parents=True, exist_ok=True)
EnsureFailed(w) ==
    EnsureStep(w, "ensure_failed", FAILED_LOG_DIR, TRUE, "ensure_screenshots")
\* log_helpers.py:34  SCREENSHOTS_DIR.mkdir(parents=True, exist_ok=True)
EnsureScreenshots(w) ==
    EnsureStep(w, "ensure_screenshots", SCREENSHOTS_DIR, TRUE, "ensure_traces")
\* log_helpers.py:35  TRACES_DIR.mkdir(parents=True, exist_ok=True)
EnsureTraces(w) == EnsureStep(w, "ensure_traces", TRACES_DIR, TRUE, "ensured")

NextEnsure ==
    \/ \E w \in procs : EnsureLog(w)
    \/ \E w \in procs : EnsureFailed(w)
    \/ \E w \in procs : EnsureScreenshots(w)
    \/ \E w \in procs : EnsureTraces(w)

SpecEnsure == InitEnsure /\ [][NextEnsure]_vars

\* C5: with the mkdir calls of the workers interleaved in any order and any
\* subset of the directories present at the start, no call raises, and a
\* worker whose ensure_log_dirs_exist has returned finds all four
\* directories present.
C5_ConcurrentEnsure ==
    \A w \in procs :
        /\ raised[w] = "none"
        /\ pc[w] # "crashed"
        /\ pc[w] = "ensured" => AllDirs \subseteq dirs

C5_Witness ==
    /\ Cardinality(procs) >= 2
    /\ \A w \in procs : pc[w] = "ensured"
    /\ dirs = AllDirs

(***************************************************************************)
(* Specification SpecReset: one process calls clean_and_create_log_dirs on *)
(* a tree in any state: absent, or present with any of its subdirectories, *)
(* a directory of an earlier run, and files in any of them.                *)
(***************************************************************************)
OTHER_DIR == "test-logs/old_run"
StartDirs == SubDirs \cup {OTHER_DIR}
OldName == setup_log_name(IdAT)
OldFiles(ds) == {Entry(d, OldName, <<d>>) : d \in ds}

InitReset ==
    /\ FnIdle
    /\ procs = {1}
    /\ pc = [p \in procs |-> "reset"]
    /\ raised = [p \in procs |-> "none"]
    /\ current = <<>> /\ phase = <<>> /\ phase_failed = <<>>
    /\ handlers = <<>> /\ fds = <<>> /\ pending = {}
    /\ \/ dirs = {}
       \/ dirs \in {{LOG_DIR} \cup ds : ds \in SUBSET StartDirs}
    /\ entries \in SUBSET OldFiles(dirs)
    /\ content = [i \in {e.ino : e \in entries} |-> <<OldRecord>>]

\* log_helpers.py:21  if LOG_DIR.exists()
ResetExists(p) ==
    /\ pc[p] = "reset"
    /\ pc' = [pc EXCEPT ![p] = IF LOG_DIR \in dirs THEN "reset_rmtree"
                                ELSE "reset_log"]
    /\ UNCHANGED <<fn_vars, fs_vars, procs, current, phase, phase_failed,
                   handlers, fds, pending, raised>>

\* log_helpers.py:22  shutil.rmtree(LOG_DIR)
ResetRmtree(p) ==
    /\ pc[p] = "reset_rmtree"
    /\ dirs' = {}
    /\ entries' = rmtree_entries(entries)
    /\ pc' = [pc EXCEPT ![p] = "reset_log"]
    /\ UNCHANGED <<fn_vars, content, procs, current, phase, phase_failed,
                   handlers, fds, pending, raised>>

\* one mkdir call of clean_and_create_log_dirs
ResetStep(p, at, d, parents, then) ==
    LET r == path_mkdir(dirs, d, parents, TRUE)
    IN  /\ pc[p] = at
        /\ dirs' = r.dirs
        /\ raised' = [raised EXCEPT ![p] = r.exc]
        /\ pc' = [pc EXCEPT ![p] = IF r.exc = "none" THEN then ELSE "crashed"]
        /\ UNCHANGED <<fn_vars, entries, content, procs, current, phase,
                       phase_failed, handlers, fds, pending>>

\* log_helpers.py:24  LOG_DIR.mkdir(exist_ok=True)
ResetLog(p) == ResetStep(p, "reset_log", LOG_DIR, FALSE, "reset_failed")
\* log_helpers.py:25  FAILED_LOG_DIR.mkdir(parents=True, exist_ok=True)
ResetFailed(p) ==
    ResetStep(p, "reset_failed", FAILED_LOG_DIR, TRUE, "reset_screenshots")
\* log_helpers.py:26  SCREENSHOTS_DIR.mkdir(parents=True, exist_ok=True)
ResetScreenshots(p) ==
    ResetStep(p, "reset_screenshots", SCREENSHOTS_DIR, TRUE, "reset_traces")
\* log_helpers.py:27  TRACES_DIR.mkdir(parents=True, exist_ok=True)
ResetTraces(p) == ResetStep(p, "reset_traces", TRACES_DIR, TRUE, "reset_done")

NextReset ==
    \/ \E p \in procs : ResetExists(p)
    \/ \E p \in procs : ResetRmtree(p)
    \/ \E p \in procs : ResetLog(p)
    \/ \E p \in procs : ResetFailed(p)
    \/ \E p \in procs : ResetScreenshots(p)
    \/ \E p \in procs : ResetTraces(p)

SpecReset == InitReset /\ [][NextReset]_vars

\* C11: whatever the tree held before, once clean_and_create_log_dirs has
\* returned the root and its failed_tests, screenshots and traces
\* subdirectories exist, nothing else is in the tree, and no call raised.
C11_ResetLeavesEmptyTree ==
    \A p \in procs :
        /\ raised[p] = "none"
        /\ pc[p] = "reset_done" => (dirs = AllDirs /\ entries = {})

\* the reset has returned on a tree that held files and a foreign directory
C11_Witness ==
    \E p \in procs :
        /\ pc[p] = "reset_done"
        /\ Cardinality(DOMAIN content) >= 2
        /\ <<OTHER_DIR>> \in DOMAIN content

\* C12: no step of ensure_log_dirs_exist removes a directory or touches a
\* file; a call that has returned leaves all four directories present; and
\* once one call has returned, a further call changes nothing.
C12_EnsureNeverDeletes ==
    [][/\ dirs \subseteq dirs'
       /\ entries' = entries
       /\ content' = content
       /\ \A w \in procs : pc'[w] = "ensured" => AllDirs \subseteq dirs'
       /\ (\E w \in procs : pc[w] = "ensured") => dirs' = dirs]_vars

\* every call has returned and the file that was in the tree is still there
C12_Witness ==
    /\ \A w \in procs : pc[w] = "ensured"
    /\ Exists(entries, LOG_DIR, setup_log_name(IdAT))
    /\ content[OldIno] = <<OldRecord>>

(***************************************************************************)
(* Claims about the sinks on the root logger (SpecSinks)                   *)
(***************************************************************************)

\* the sinks of hs that are not per-test file sinks, in registration order
ForeignSinks(hs) == SelectSeq(hs, LAMBDA h : h.kind # "FileHandler")

AttachStep(p) == pc[p] = "idle" /\ pc'[p] = "report_setup"
DetachStep(p) == pc[p] = "teardown" /\ pc'[p] = "report_teardown"

\* C13 as stated: the sinks other parties registered are still registered,
\* unchanged, after attach and after detach, attach adds exactly its own
\* file sink and detach removes exactly that sink.
C13_ForeignSinksUntouched ==
    [][\A p \in procs :
          /\ AttachStep(p) =>
                \E i \in Inos : handlers'[p] = Append(handlers[p], FileHandler(i))
          /\ DetachStep(p) =>
                ForeignSinks(handlers'[p]) = ForeignSinks(handlers[p])]_vars

\* C13: attach replaces the sinks of the root logger by its own open file
\* sink (every sink registered before, foreign ones included, is removed);
\* detach removes the file sinks and leaves every other sink registered,
\* unchanged and in order.
C13_AttachClearsDetachKeepsForeign ==
    [][\A p \in procs :
          /\ AttachStep(p) =>
                \E i \in Inos : /\ handlers'[p] = <<FileHandler(i)>>
                                /\ i \in fds'[p]
          /\ DetachStep(p) =>
                /\ handlers'[p] = ForeignSinks(handlers[p])
                /\ ForeignSinks(handlers'[p]) = handlers'[p]]_vars

\* a sink another party registered during the test is still registered
\* after detach, and attach's sink is gone
C13_Witness ==
    \E p \in procs : /\ pc[p] = "report_teardown"
                     /\ handlers[p] = <<ForeignHandler>>
                     /\ fds[p] = {}

\* the per-test file sinks registered in hs
FileSinks(hs) == {k \in 1..Len(hs) : hs[k].kind = "FileHandler"}

\* the positions of a process between a test's attach and its detach
Attached == {"report_setup", "call", "report_call", "teardown"}

\* C14: at every moment at most one per-test file sink is registered in a
\* process, and the open handles are exactly the registered file sinks:
\* one between a test's attach and its detach, whatever the outcome of
\* its phases, and none outside; detach closes the handle attach opened,
\* and attach starts with none open.
C14_OneSinkClosedOnce ==
    /\ [](\A p \in procs :
             /\ Cardinality(FileSinks(handlers[p])) <= 1
             /\ fds[p] = FileInos(handlers[p])
             /\ Cardinality(fds[p]) = (IF pc[p] \in Attached THEN 1 ELSE 0))
    /\ [][\A p \in procs :
             /\ AttachStep(p) => fds[p] = {} /\ Cardinality(fds'[p]) = 1
             /\ DetachStep(p) => Cardinality(fds[p]) = 1 /\ fds'[p] = {}
             /\ fds'[p] # fds[p] => AttachStep(p) \/ DetachStep(p)]_vars

\* every test has run, one of them failed in its call phase, and no sink
\* is left open
C14_Witness ==
    \E p \in procs : /\ pending = {}
                     /\ pc[p] = "idle"
                     /\ fds[p] = {}
                     /\ FileSinks(handlers[p]) = {}
                     /\ \E e \in entries : e.dir = FAILED_LOG_DIR

(***************************************************************************)
(* Claims about failing file operations (SpecFaults)                       *)
(***************************************************************************)

Reporting == {"report_setup", "report_call", "report_teardown"}

\* C15: no call of pytest_runtest_logreport lets an exception reach the
\* runner or changes the recorded outcome, whether the source log file is
\* missing (nothing is moved then) or the move fails.
C15_RelocationErrorsNotFatal ==
    [][\A p \in procs :
          (pc[p] \in Reporting /\ pc'[p] # pc[p]) =>
              /\ raised'[p] = "none"
              /\ pc'[p] # "crashed"
              /\ phase_failed'[p] = phase_failed[p]
              /\ ~Exists(entries, LOG_DIR, report_log_name(current[p]))
                     => entries' = entries]_vars

\* C16: no call of pytest_runtest_teardown lets an exception reach the
\* runner, a failing close included; and a call that finds no file sink
\* of its own registered changes nothing.
C16_DetachNeverRaises ==
    [][\A p \in procs :
          DetachStep(p) =>
              /\ raised'[p] = "none"
              /\ FileSinks(handlers[p]) = {} =>
                     /\ handlers'[p] = handlers[p]
                     /\ fds'[p] = fds[p]
                     /\ entries' = entries
                     /\ content' = content]_vars

\* C19 as stated: when the open of pytest_runtest_setup fails the error
\* reaches the runner and the sinks registered on the root logger are
\* those registered before the call; a sink is registered only once its
\* handle is open.
C19_FailedAttachKeepsSinks ==
    [][\A p \in procs :
          AttachStep(p) =>
              /\ FileInos(handlers'[p]) \subseteq fds'[p]
              /\ raised'[p] # "none" =>
                     /\ phase_failed'[p]
                     /\ handlers'[p] = handlers[p]]_vars

\* C19: when the open of pytest_runtest_setup fails the error reaches the
\* runner, no file is created, no handle is opened and the root logger is
\* left with no sink at all (those registered before the call are gone);
\* a sink is registered only once its handle is open.
C19_FailedAttachLeavesNoSink ==
    [][\A p \in procs :
          AttachStep(p) =>
              /\ FileInos(handlers'[p]) \subseteq fds'[p]
              /\ raised'[p] # "none" =>
                     /\ phase_failed'[p]
                     /\ handlers'[p] = <<>>
                     /\ fds'[p] = fds[p]
                     /\ entries' = entries
                     /\ content' = content]_vars

\* the open of the first test failed: the setup phase is reported failed,
\* no file exists and nothing is registered
C19_Witness ==
    \E p \in procs : /\ pc[p] = "report_setup"
                     /\ raised[p] = "OSError"
                     /\ phase_failed[p]
                     /\ handlers[p] = <<>>
                     /\ entries = {}

(***************************************************************************)
(* Claim about the empty-parameter marker (SpecSanitize)                   *)
(***************************************************************************)

\* the tokens joined by "::"
RECURSIVE JoinColons(_)
JoinColons(tokens) ==
    IF Len(tokens) = 0 THEN <<>>
    ELSE IF Len(tokens) = 1 THEN tokens[1]
    ELSE tokens[1] \o Sep \o JoinColons(Tail(tokens))

HasEmptyParam(id) == \E k \in 1..Len(Split(id)) : Split(id)[k] = EmptyParam
WithoutEmptyParam(id) == SelectSeq(Split(id), LAMBDA x : x # EmptyParam)
LastToken(id) == Split(id)[Len(Split(id))]
HasChar(s, c) == \E k \in 1..Len(s) : s[k] = c

\* C17: for an identity with a segment equal to "()", the result is the
\* one of the identity without its "()" segments (when "()" is not the
\* last segment, whose rewriting then falls on a dropped segment: the
\* others are then joined as they are, before the bracket rule); and
\* where no other rule applies it is the remaining segments, in order,
\* joined by "/".
C17_EmptyParamDropped ==
    (fn_pc # "input" /\ HasEmptyParam(node_id)) =>
        LET rest == WithoutEmptyParam(node_id)
            last == LastToken(node_id)
        IN  /\ last # EmptyParam =>
                   sanitized = sanitize_nodeid(JoinColons(rest))
            /\ last = EmptyParam => sanitized = BracketSub(Join(rest))
            /\ (/\ ~HasChar(node_id, "[")
                /\ ~HasChar(last, "/")
                /\ ~HasChar(last, "-")) => sanitized = Join(rest)

\* "a/::()::a": the marker between two segments is gone from "a//a"
C17_Witness ==
    /\ fn_pc = "sanitized"
    /\ node_id = <<"a", "/">> \o Sep \o EmptyParam \o Sep \o <<"a">>
    /\ sanitized = <<"a", "/", "/", "a">>

(***************************************************************************)
(* Specification SpecLocate: the file name pytest_runtest_setup creates    *)
(* and the one pytest_runtest_logreport looks for, for one identity in a   *)
(* process with one worker tag (PYTEST_XDIST_WORKER; the hooks do not read *)
(* it).                                                                    *)
(***************************************************************************)
InitLocate ==
    /\ fn_pc = "input"
    /\ node_id \in LocateIds
    /\ worker_id \in WorkerIds
    /\ path1 = None /\ path2 = None
    /\ sanitized = None /\ resanitized = None /\ last_element = None
    /\ test_name = None /\ filename = None /\ node_id2 = None
    /\ FsIdle /\ ProcIdle

Locate ==
    /\ fn_pc = "input" /\ worker_id # None
    /\ path1' = setup_log_name(node_id)
    /\ path2' = report_log_name(node_id)
    /\ fn_pc' = "located"
    /\ UNCHANGED <<node_id, node_id2, sanitized, resanitized, last_element,
                   test_name, worker_id, filename, fs_vars, proc_vars>>

NextLocate == Locate

SpecLocate == InitLocate /\ [][NextLocate]_vars

\* C18: the name pytest_runtest_logreport looks for is the name
\* pytest_runtest_setup created, for every identity and worker tag.
C18_RelocatorFindsFile ==
    fn_pc = "located" => path2 = path1
====
